---- MODULE Spec2Model ----
(***************************************************************************)
(* RFM scoring and rule-based segmentation of customer_segmentation.py,    *)
(* and the cleaning of raw transactions of data_preprocessing.py.         *)
(*                                                                         *)
(* Six specifications share the variables below:                           *)
(*   SpecSegment  the rule classifier segment_customers on one score row   *)
(*   SpecScore    the two binning statements of calculate_rfm on a column  *)
(*   SpecRfm      calculate_rfm on a loaded transaction table              *)
(*   SpecSelect   _find_optimal_clusters on a scaled feature matrix        *)
(*   SpecPipeline the methods of a CustomerSegmentation object, called in  *)
(*                any order from its construction on                       *)
(*   SpecClean    DataPreprocessor.clean_customer_data on raw transactions *)
(***************************************************************************)
EXTENDS Integers, Sequences, FiniteSets, TLC

VARIABLES
    row,              \* SpecSegment: the scored row handed to segment_customers
    segment,          \* SpecSegment: the label it returned
    segment_again,    \* SpecSegment: the label of a second call on the same row
    kind,             \* SpecScore: which metric column is being binned
    column,           \* SpecScore: the metric column (one value per customer)
    scores,           \* SpecScore: the score column computed from it
    customer_data,    \* self.customer_data: None or the transaction rows
    date_dtype,       \* dtype of customer_data[date_col]: "object" (str) or "datetime"
    rfm_data,         \* self.rfm_data: None or the scored customer rows
    outcome,          \* how the last call ended: "returned" or the exception raised
    call_arg,         \* the analysis_date argument of the last calculate_rfm call
    analysis_date,    \* the analysis_date that call worked with (argument or default)
    scaled_features,  \* SpecSelect: the matrix handed to _find_optimal_clusters
    max_clusters,     \* SpecSelect: the max_clusters argument of that call
    silhouette,       \* what silhouette_score returns for the seeded KMeans fit of each k
    search,           \* the candidates and scores _find_optimal_clusters gave the last call
    km_labels,        \* the labels the seeded KMeans fit of each k gives each distinct row
    n_clusters,       \* the cluster count the last call fitted
    silhouette_avg,   \* the silhouette score the last call returned
    segmented_data,   \* self.segmented_data: None or the two summaries
    last_call,        \* the method called last
    repeated,         \* whether the call before it was the same call, same argument
    files,            \* the files the last call wrote
    raw_data,         \* SpecClean: DataPreprocessor.raw_data, None or the raw records
    processed_data    \* SpecClean: DataPreprocessor.processed_data

vars == <<row, segment, segment_again, kind, column, scores,
          customer_data, date_dtype, rfm_data, outcome, call_arg, analysis_date,
          scaled_features, max_clusters, silhouette, search,
          km_labels, n_clusters, silhouette_avg, segmented_data, last_call, repeated,
          files, raw_data, processed_data>>

segment_vars == <<row, segment, segment_again>>
score_vars   == <<kind, column, scores>>
object_vars  == <<customer_data, date_dtype, rfm_data, outcome, call_arg, analysis_date>>
cluster_vars == <<scaled_features, max_clusters, silhouette, search,
                  km_labels, n_clusters, silhouette_avg, segmented_data, last_call,
                  repeated, files>>
select_vars  == <<scaled_features, max_clusters>>
result_vars  == <<km_labels, n_clusters, silhouette_avg, segmented_data, last_call,
                  repeated, files>>
clean_vars   == <<raw_data, processed_data>>

PyNone == "None"
Unset  == "<unset>"

\* An attribute that holds None or a DataFrame, and an optional argument.
NoneFrame   == [is_none |-> TRUE, rows |-> << >>]
Frame(rows) == [is_none |-> FALSE, rows |-> rows]
Omitted     == << >>
Given(v)    == <<v>>

(***************************************************************************)
(* segment_customers (nested in calculate_rfm): the if/elif cascade.       *)
(***************************************************************************)
Scores == 1..5

Labels == {"Champions", "Loyal Customers", "Potential Loyalists", "New Customers",
           "Promising", "Need Attention", "About to Sleep", "At Risk",
           "Cannot Lose Them", "Hibernating", "Lost"}

\* mutant: the 'Loyal Customers' test placed before the 'Champions' test
segment_customers_loyal_first(r) ==
    IF r.F_Score >= 4 /\ r.M_Score >= 4 THEN "Loyal Customers"
    ELSE IF r.R_Score >= 4 /\ r.F_Score >= 4 /\ r.M_Score >= 4 THEN "Champions"
    ELSE IF r.R_Score >= 4 /\ r.F_Score >= 3 THEN "Potential Loyalists"
    ELSE IF r.R_Score >= 4 /\ r.F_Score <= 2 THEN "New Customers"
    ELSE IF r.R_Score >= 3 /\ r.F_Score >= 2 /\ r.M_Score >= 2 THEN "Promising"
    ELSE IF r.R_Score >= 3 /\ r.F_Score >= 3 THEN "Need Attention"
    ELSE IF r.R_Score = 2 /\ r.F_Score >= 2 /\ r.M_Score >= 2 THEN "About to Sleep"
    ELSE IF r.M_Score >= 4 /\ r.R_Score <= 2 THEN "At Risk"
    ELSE IF r.M_Score >= 4 /\ r.R_Score = 1 THEN "Cannot Lose Them"
    ELSE IF r.R_Score <= 2 /\ r.F_Score >= 2 THEN "Hibernating"
    ELSE "Lost"

\* mutant: the 'Cannot Lose Them' test placed before the 'At Risk' test
segment_customers_swap89(r) ==
    IF r.R_Score >= 4 /\ r.F_Score >= 4 /\ r.M_Score >= 4 THEN "Champions"
    ELSE IF r.F_Score >= 4 /\ r.M_Score >= 4 THEN "Loyal Customers"
    ELSE IF r.R_Score >= 4 /\ r.F_Score >= 3 THEN "Potential Loyalists"
    ELSE IF r.R_Score >= 4 /\ r.F_Score <= 2 THEN "New Customers"
    ELSE IF r.R_Score >= 3 /\ r.F_Score >= 2 /\ r.M_Score >= 2 THEN "Promising"
    ELSE IF r.R_Score >= 3 /\ r.F_Score >= 3 THEN "Need Attention"
    ELSE IF r.R_Score = 2 /\ r.F_Score >= 2 /\ r.M_Score >= 2 THEN "About to Sleep"
    ELSE IF r.M_Score >= 4 /\ r.R_Score = 1 THEN "Cannot Lose Them"
    ELSE IF r.M_Score >= 4 /\ r.R_Score <= 2 THEN "At Risk"
    ELSE IF r.R_Score <= 2 /\ r.F_Score >= 2 THEN "Hibernating"
    ELSE "Lost"

\* mutant: the 'Promising' test moved after the 'Need Attention' test
segment_customers_swap56(r) ==
    IF r.R_Score >= 4 /\ r.F_Score >= 4 /\ r.M_Score >= 4 THEN "Champions"
    ELSE IF r.F_Score >= 4 /\ r.M_Score >= 4 THEN "Loyal Customers"
    ELSE IF r.R_Score >= 4 /\ r.F_Score >= 3 THEN "Potential Loyalists"
    ELSE IF r.R_Score >= 4 /\ r.F_Score <= 2 THEN "New Customers"
    ELSE IF r.R_Score >= 3 /\ r.F_Score >= 3 THEN "Need Attention"
    ELSE IF r.R_Score >= 3 /\ r.F_Score >= 2 /\ r.M_Score >= 2 THEN "Promising"
    ELSE IF r.R_Score = 2 /\ r.F_Score >= 2 /\ r.M_Score >= 2 THEN "About to Sleep"
    ELSE IF r.M_Score >= 4 /\ r.R_Score <= 2 THEN "At Risk"
    ELSE IF r.M_Score >= 4 /\ r.R_Score = 1 THEN "Cannot Lose Them"
    ELSE IF r.R_Score <= 2 /\ r.F_Score >= 2 THEN "Hibernating"
    ELSE "Lost"

\* mutant: the final else branch missing, so the function falls off its end
segment_customers_no_else(r) ==
    IF r.R_Score >= 4 /\ r.F_Score >= 4 /\ r.M_Score >= 4 THEN "Champions"
    ELSE IF r.F_Score >= 4 /\ r.M_Score >= 4 THEN "Loyal Customers"
    ELSE IF r.R_Score >= 4 /\ r.F_Score >= 3 THEN "Potential Loyalists"
    ELSE IF r.R_Score >= 4 /\ r.F_Score <= 2 THEN "New Customers"
    ELSE IF r.R_Score >= 3 /\ r.F_Score >= 2 /\ r.M_Score >= 2 THEN "Promising"
    ELSE IF r.R_Score >= 3 /\ r.F_Score >= 3 THEN "Need Attention"
    ELSE IF r.R_Score = 2 /\ r.F_Score >= 2 /\ r.M_Score >= 2 THEN "About to Sleep"
    ELSE IF r.M_Score >= 4 /\ r.R_Score <= 2 THEN "At Risk"
    ELSE IF r.M_Score >= 4 /\ r.R_Score = 1 THEN "Cannot Lose Them"
    ELSE IF r.R_Score <= 2 /\ r.F_Score >= 2 THEN "Hibernating"
    ELSE PyNone

segment_customers(r) ==
    IF r.R_Score >= 4 /\ r.F_Score >= 4 /\ r.M_Score >= 4 THEN "Champions"
    ELSE IF r.F_Score >= 4 /\ r.M_Score >= 4 THEN "Loyal Customers"
    ELSE IF r.R_Score >= 4 /\ r.F_Score >= 3 THEN "Potential Loyalists"
    ELSE IF r.R_Score >= 4 /\ r.F_Score <= 2 THEN "New Customers"
    ELSE IF r.R_Score >= 3 /\ r.F_Score >= 2 /\ r.M_Score >= 2 THEN "Promising"
    ELSE IF r.R_Score >= 3 /\ r.F_Score >= 3 THEN "Need Attention"
    ELSE IF r.R_Score = 2 /\ r.F_Score >= 2 /\ r.M_Score >= 2 THEN "About to Sleep"
    ELSE IF r.M_Score >= 4 /\ r.R_Score <= 2 THEN "At Risk"
    ELSE IF r.M_Score >= 4 /\ r.R_Score = 1 THEN "Cannot Lose Them"
    ELSE IF r.R_Score <= 2 /\ r.F_Score >= 2 THEN "Hibernating"
    ELSE "Lost"

ScoreRows == [R_Score : Scores, F_Score : Scores, M_Score : Scores]

\* Values the variables of the other specifications keep while one runs.
SegmentIdle == /\ row = Unset /\ segment = Unset /\ segment_again = Unset
ScoreIdle   == /\ kind = Unset /\ column = << >> /\ scores = << >>
ObjectIdle  == /\ customer_data = NoneFrame /\ date_dtype = Unset /\ rfm_data = NoneFrame
               /\ outcome = Unset /\ call_arg = Omitted /\ analysis_date = Omitted
SelectIdle  == scaled_features = << >> /\ max_clusters = Omitted
ResultIdle  == /\ km_labels = << >> /\ n_clusters = Omitted /\ silhouette_avg = Omitted
               /\ segmented_data = Omitted /\ last_call = Unset /\ repeated = FALSE
               /\ files = {}
CleanIdle   == raw_data = NoneFrame /\ processed_data = NoneFrame
ClusterIdle == SelectIdle /\ silhouette = << >> /\ search = << >> /\ ResultIdle

InitSegment ==
    /\ row \in ScoreRows
    /\ segment = Unset
    /\ segment_again = Unset
    /\ ScoreIdle
    /\ ObjectIdle
    /\ ClusterIdle
    /\ CleanIdle

\* rfm_data.apply(segment_customers, axis=1) on one row
Classify ==
    /\ segment = Unset
    /\ segment' = segment_customers(row)
    /\ UNCHANGED <<row, segment_again>>
    /\ UNCHANGED <<score_vars, object_vars, cluster_vars>>
    /\ UNCHANGED clean_vars

\* the same call repeated on the unchanged row
ClassifyAgain ==
    /\ segment # Unset
    /\ segment_again = Unset
    /\ segment_again' = segment_customers(row)
    /\ UNCHANGED <<row, segment>>
    /\ UNCHANGED <<score_vars, object_vars, cluster_vars>>
    /\ UNCHANGED clean_vars

NextSegment == Classify \/ ClassifyAgain

SpecSegment == InitSegment /\ [][NextSegment]_vars

(***************************************************************************)
(* The rule table of the design, in its numbered order, first match wins.  *)
(***************************************************************************)
RuleHolds(i, r, f, m) ==
    CASE i = 1  -> r >= 4 /\ f >= 4 /\ m >= 4
      [] i = 2  -> f >= 4 /\ m >= 4
      [] i = 3  -> r >= 4 /\ f >= 3
      [] i = 4  -> r >= 4 /\ f <= 2
      [] i = 5  -> r >= 3 /\ f >= 2 /\ m >= 2
      [] i = 6  -> r >= 3 /\ f >= 3
      [] i = 7  -> r = 2 /\ f >= 2 /\ m >= 2
      [] i = 8  -> m >= 4 /\ r <= 2
      [] i = 9  -> m >= 4 /\ r = 1
      [] i = 10 -> r <= 2 /\ f >= 2
      [] OTHER  -> TRUE

RuleLabel == <<"Champions", "Loyal Customers", "Potential Loyalists", "New Customers",
               "Promising", "Need Attention", "About to Sleep", "At Risk",
               "Cannot Lose Them", "Hibernating", "Lost">>

FirstRule(r, f, m) ==
    CHOOSE i \in 1..11 : /\ RuleHolds(i, r, f, m)
                         /\ \A j \in 1..(i - 1) : ~RuleHolds(j, r, f, m)

\* C1: the label returned for a score triple is the label of the first rule, in
\* the numbered order 1..11, whose predicate holds ('Lost' when none of 1-10 holds).
C1_FirstMatchWins ==
    segment # Unset =>
        segment = RuleLabel[FirstRule(row.R_Score, row.F_Score, row.M_Score)]

\* a triple matched by two rules (5 and 6), labelled by the earlier one
C1_Witness ==
    /\ segment = "Promising"
    /\ RuleHolds(6, row.R_Score, row.F_Score, row.M_Score)

\* C2: every triple is mapped to one of the 11 fixed labels, and classifying the
\* same triple a second time gives the same label.
C2_TotalDeterministic ==
    /\ segment # Unset => segment \in Labels
    /\ segment_again # Unset => (segment_again \in Labels /\ segment_again = segment)

\* a triple no rule 1-10 matches, classified twice
C2_Witness ==
    /\ segment = "Lost"
    /\ segment_again = "Lost"

\* C3 (as claimed): the triple r=1, f=1, m=5 is classified 'Cannot Lose Them'.
C3_CannotLoseThem ==
    (row = [R_Score |-> 1, F_Score |-> 1, M_Score |-> 5] /\ segment # Unset)
        => segment = "Cannot Lose Them"

\* C4: 'Cannot Lose Them' is never returned: a triple with m>=4 and r=1 is taken
\* by 'At Risk' or 'Loyal Customers'; each of the other 10 labels is returned
\* for at least one triple.
C4_Rule9Dead ==
    /\ segment # "Cannot Lose Them"
    /\ (segment # Unset /\ row.M_Score >= 4 /\ row.R_Score = 1)
           => segment \in {"At Risk", "Loyal Customers"}
    /\ \A l \in Labels \ {"Cannot Lose Them"} :
           \E t \in ScoreRows : segment_customers(t) = l

\* a triple satisfying rule 9's predicate, classified
C4_Witness ==
    /\ row.M_Score >= 4 /\ row.R_Score = 1 /\ row.F_Score = 1
    /\ segment = "At Risk"

\* C5: a triple is 'Champions' exactly when r>=4, f>=4 and m>=4.
C5_ChampionsIff ==
    segment # Unset =>
        (segment = "Champions"
            <=> (row.R_Score >= 4 /\ row.F_Score >= 4 /\ row.M_Score >= 4))

\* the triple (5,5,5), classified
C5_Witness ==
    /\ row = [R_Score |-> 5, F_Score |-> 5, M_Score |-> 5]
    /\ segment = "Champions"

(***************************************************************************)
(* The score statements of calculate_rfm: pandas.cut with bins=5, and      *)
(* Series.rank(method='first').  Metric values are integers; bin edges are *)
(* kept exact by scaling every quantity by 1000 * NBins.                   *)
(***************************************************************************)
NBins == 5

MaxPopR    == 5    \* longest Recency column binned in SpecScore
MaxRecency == 4    \* largest Recency value in SpecScore
MaxPop     == 6    \* longest Frequency / Monetary column binned in SpecScore
MaxMetric  == 3    \* largest Frequency / Monetary value in SpecScore

Abs(n) == IF n < 0 THEN 0 - n ELSE n

SetMin(S) == CHOOSE v \in S : \A w \in S : v <= w
SetMax(S) == CHOOSE v \in S : \A w \in S : v >= w

\* Series.min() and Series.max() of a non-empty column
SeqMin(x) == SetMin({x[i] : i \in DOMAIN x})
SeqMax(x) == SetMax({x[i] : i \in DOMAIN x})

\* pandas _nbins_to_bins(x, 5, right=True): the 6 edges np.linspace(mn, mx, 6),
\* times 1000 * NBins.  mn = mx: the end points are moved apart by 0.1% of |mn|
\* (0.001 when mn = 0) before binning; otherwise the first edge is lowered by
\* 0.1% of the range after binning.
nbins_to_bins(x) ==
    LET mn == SeqMin(x)
        mx == SeqMax(x)
    IN  IF mn = mx
        THEN LET d  == IF mn # 0 THEN Abs(mn) ELSE 1
                 lo == 1000 * mn - d
                 hi == 1000 * mx + d
             IN  [j \in 0..NBins |-> NBins * lo + j * (hi - lo)]
        ELSE [j \in 0..NBins |->
                 IF j = 0 THEN NBins * 1000 * mn - NBins * (mx - mn)
                          ELSE NBins * 1000 * mn + j * 1000 * (mx - mn)]

\* bins.searchsorted(v, side='left'): the number of edges strictly below v
searchsorted_left(bins, v) ==
    Cardinality({j \in DOMAIN bins : bins[j] < 1000 * NBins * v})

\* pandas.cut(x, bins=5, labels=labels) on a non-empty column: the label of the
\* bin (edge[k-1], edge[k]] holding each value, then .astype(int)
cut(x, labels) ==
    LET bins == nbins_to_bins(x)
    IN  [i \in DOMAIN x |-> labels[searchsorted_left(bins, x[i])]]

\* mutant: rank(method='min'), equal values sharing the lowest of their ranks
rank_min(x) ==
    [i \in DOMAIN x |-> 1 + Cardinality({j \in DOMAIN x : x[j] < x[i]})]

\* Series.rank(method='first'): 1 + the number of smaller values + the number
\* of equal values in earlier rows
rank_first(x) ==
    [i \in DOMAIN x |->
        1 + Cardinality({j \in DOMAIN x : x[j] < x[i] \/ (x[j] = x[i] /\ j < i)})]

\* mutant: the labels left in bin order, so that the scale is not inverted
R_Score_not_inverted(recency) == cut(recency, <<1, 2, 3, 4, 5>>)

\* mutant: labels=False, which yields the 0-based bin codes
R_Score_codes(recency) == cut(recency, <<0, 1, 2, 3, 4>>)

\* line 154: pd.cut(rfm_data['Recency'], bins=5, labels=[5,4,3,2,1]).astype(int)
R_Score(recency) == cut(recency, <<5, 4, 3, 2, 1>>)

\* mutant: the raw values binned, the .rank(method='first') step left out
FM_Score_no_rank(metric) == cut(metric, <<1, 2, 3, 4, 5>>)

\* lines 156-159: pd.cut(rfm_data[...].rank(method='first'), bins=5,
\* labels=[1,2,3,4,5]).astype(int), for Frequency and for Monetary
FM_Score(metric) == cut(rank_first(metric), <<1, 2, 3, 4, 5>>)

RECURSIVE SeqsUpTo(_, _)
\* the non-empty sequences over S of length at most n
SeqsUpTo(S, n) ==
    IF n = 0 THEN {} ELSE [1..n -> S] \cup SeqsUpTo(S, n - 1)

\* the Monetary values 10, 20, 30, 40, 50 and the outlier 1000, the outlier
\* in any row
OutlierColumns ==
    {[j \in 1..6 |-> IF j = o THEN 1000
                     ELSE IF j > o THEN 10 * (j - 1) ELSE 10 * j] : o \in 1..6}

InitScore ==
    /\ \/ /\ kind = "Recency"
          /\ column \in SeqsUpTo((0 - 1)..MaxRecency, MaxPopR)
       \/ /\ kind \in {"Frequency", "Monetary"}
          /\ column \in SeqsUpTo(1..MaxMetric, MaxPop)
       \/ /\ kind = "Monetary"
          /\ column \in OutlierColumns
    /\ scores = << >>
    /\ SegmentIdle
    /\ ObjectIdle
    /\ ClusterIdle
    /\ CleanIdle

\* rfm_data['R_Score'] = ...
ScoreRecency ==
    /\ kind = "Recency"
    /\ scores = << >>
    /\ scores' = R_Score(column)
    /\ UNCHANGED <<kind, column>>
    /\ UNCHANGED <<segment_vars, object_vars, cluster_vars>>
    /\ UNCHANGED clean_vars

\* rfm_data['F_Score'] = ... and rfm_data['M_Score'] = ...
ScoreRank ==
    /\ kind \in {"Frequency", "Monetary"}
    /\ scores = << >>
    /\ scores' = FM_Score(column)
    /\ UNCHANGED <<kind, column>>
    /\ UNCHANGED <<segment_vars, object_vars, cluster_vars>>
    /\ UNCHANGED clean_vars

NextScore == ScoreRecency \/ ScoreRank

SpecScore == InitScore /\ [][NextScore]_vars

\* the column is never empty, so neither is a computed score column
Scored == scores # << >>

\* C9: R_Score is the inverted index of the equal-width bin of Recency over
\* [min, max]: with min < max the smallest Recency scores 5, the largest 1, a
\* value in ((k-1)/5, k/5] of the range scores 6-k, and a larger Recency never
\* has a larger R_Score.
C9_RecencyInverted ==
    (Scored /\ kind = "Recency" /\ SeqMin(column) < SeqMax(column)) =>
        LET mn == SeqMin(column)
            w  == SeqMax(column) - mn
        IN  /\ \A i \in DOMAIN column :
                /\ column[i] = mn => scores[i] = 5
                /\ column[i] = mn + w => scores[i] = 1
                /\ \A k \in 1..5 :
                      ((k - 1) * w < 5 * (column[i] - mn) /\ 5 * (column[i] - mn) <= k * w)
                          => scores[i] = 6 - k
            /\ \A i, j \in DOMAIN column :
                column[i] > column[j] => scores[i] <= scores[j]

\* a Recency column whose values fall in all five bins
C9_Witness ==
    /\ Scored /\ kind = "Recency"
    /\ {scores[i] : i \in DOMAIN scores} = 1..5
    /\ SeqMin(column) < 0

\* i is ranked strictly above j: larger value, or equal value in a later row
RankedAbove(x, i, j) == x[i] > x[j] \/ (x[i] = x[j] /\ i > j)

CountOf(s, v) == Cardinality({i \in DOMAIN s : s[i] = v})

\* C10: F_Score and M_Score bin the rank: for n >= 5 customers all five scores
\* are used, the populations of any two scores differ by at most 1, and a
\* customer ranked above another never has the lower score.
C10_RankBinsBalanced ==
    (Scored /\ kind \in {"Frequency", "Monetary"}) =>
        /\ \A i \in DOMAIN scores : scores[i] \in 1..5
        /\ \A i, j \in DOMAIN column :
              RankedAbove(column, i, j) => scores[i] >= scores[j]
        /\ Len(column) >= 5 =>
              /\ \A v \in 1..5 : CountOf(scores, v) >= 1
              /\ \A u, v \in 1..5 : CountOf(scores, u) - CountOf(scores, v) <= 1

\* six customers with tied values: one score is held by two of them
C10_Witness ==
    /\ Scored /\ kind = "Monetary"
    /\ Len(column) = 6
    /\ \E i, j \in DOMAIN column : i # j /\ column[i] = column[j]
    /\ \E v \in 1..5 : CountOf(scores, v) = 2

(***************************************************************************)
(* calculate_rfm on a loaded transaction table.  A timestamp is a number   *)
(* of ticks, TicksPerDay ticks to the day; an amount is a number of        *)
(* thousandths of the currency unit, so that .round(2) has work to do.     *)
(***************************************************************************)
MaxTx       == 2    \* most transaction rows in customer_data
MaxCust     == 3    \* customer ids are 1..MaxCust
MaxTick     == 1    \* transaction timestamps are 0..MaxTick
TicksPerDay == 2    \* resolution of a timestamp

Amounts == {4, 2500}

Transactions ==
    [customer_id : 1..MaxCust, transaction_date : 0..MaxTick, transaction_amount : Amounts]

\* Row order of the transaction log: chronological, as _generate_sample_data
\* builds it.  The aggregates taken per group (max, count, sum) do not read it.
TxLeq(a, b) ==
    \/ a.transaction_date < b.transaction_date
    \/ /\ a.transaction_date = b.transaction_date
       /\ \/ a.customer_id < b.customer_id
          \/ /\ a.customer_id = b.customer_id
             /\ a.transaction_amount <= b.transaction_amount

TransactionTables ==
    UNION {{t \in [1..n -> Transactions] : \A i \in 1..(n - 1) : TxLeq(t[i], t[i + 1])}
              : n \in 0..MaxTx}

\* analysis_date values a caller passes
AnalysisDates == 0..(MaxTick + TicksPerDay)

RECURSIVE SumOver(_, _)
\* the sum of f[i] over the finite index set S
SumOver(S, f) ==
    IF S = {} THEN 0
    ELSE LET i == CHOOSE j \in S : TRUE IN f[i] + SumOver(S \ {i}, f)

RECURSIVE SortedSeq(_)
\* the members of a finite set of integers in ascending order
SortedSeq(S) ==
    IF S = {} THEN << >>
    ELSE LET lo == CHOOSE v \in S : \A w \in S : v <= w
         IN  <<lo>> \o SortedSeq(S \ {lo})

\* DataFrame.round(2) on a float column, in thousandths: np.round goes to the
\* nearest hundredth, a tie to the even one
round2(x) ==
    LET q == x \div 10
        r == x % 10
    IN  IF r < 5 THEN 10 * q
        ELSE IF r > 5 THEN 10 * (q + 1)
        ELSE IF q % 2 = 0 THEN 10 * q ELSE 10 * (q + 1)

\* Timedelta.days: whole days, rounded towards minus infinity
days(ticks) == ticks \div TicksPerDay

\* the rows of one groupby(customer_col) group
group(data, c) == {i \in DOMAIN data : data[i].customer_id = c}

\* self.customer_data[date_col].max()
max_date(data) == SeqMax([i \in DOMAIN data |-> data[i].transaction_date])

\* mutant: recency taken from the group's first purchase, x.min()
group_recency_min(data, c, a) ==
    days(a - SetMin({data[i].transaction_date : i \in group(data, c)}))

\* line 144: lambda x: (analysis_date - x.max()).days
group_recency(data, c, a) ==
    days(a - SetMax({data[i].transaction_date : i \in group(data, c)}))

\* lines 143-151: groupby(customer_col).agg({...}).round(2), the columns renamed
\* and the index reset: one row per customer id, in ascending id order
rfm_metrics(data, a) ==
    LET ids == SortedSeq({data[i].customer_id : i \in DOMAIN data})
    IN  [k \in DOMAIN ids |->
            [customer_id |-> ids[k],
             Recency     |-> group_recency(data, ids[k], a),
             Frequency   |-> Cardinality(group(data, ids[k])),
             Monetary    |-> round2(SumOver(group(data, ids[k]),
                                 [i \in DOMAIN data |-> data[i].transaction_amount]))]]

\* lines 154-189: the score columns, RFM_Score (a float: kept as the fraction
\* num / den) and the Segment column
add_scores(m) ==
    LET r == R_Score([k \in DOMAIN m |-> m[k].Recency])
        f == FM_Score([k \in DOMAIN m |-> m[k].Frequency])
        v == FM_Score([k \in DOMAIN m |-> m[k].Monetary])
    IN  [k \in DOMAIN m |->
            [customer_id |-> m[k].customer_id,
             Recency     |-> m[k].Recency,
             Frequency   |-> m[k].Frequency,
             Monetary    |-> m[k].Monetary,
             R_Score     |-> r[k],
             F_Score     |-> f[k],
             M_Score     |-> v[k],
             RFM_Score   |-> [num |-> r[k] + f[k] + v[k], den |-> 3],
             Segment     |-> segment_customers(
                                 [R_Score |-> r[k], F_Score |-> f[k], M_Score |-> v[k]])]]

InitRfm ==
    /\ \/ /\ customer_data \in {Frame(t) : t \in TransactionTables}
          /\ date_dtype \in {"object", "datetime"}
       \/ /\ customer_data = NoneFrame
          /\ date_dtype = Unset
    /\ rfm_data = NoneFrame
    /\ outcome = Unset
    /\ call_arg = Omitted
    /\ analysis_date = Omitted
    /\ SegmentIdle
    /\ ScoreIdle
    /\ ClusterIdle
    /\ CleanIdle

\* mutant: the Cluster column of the table held before carried over, by row
\* position, into the new one
new_rfm_data_updated(data, a) ==
    LET new == add_scores(rfm_metrics(data, a))
        old == rfm_data.rows
    IN  Frame([i \in DOMAIN new |->
                  IF i \in DOMAIN old /\ "Cluster" \in DOMAIN old[i]
                  THEN [c \in (DOMAIN new[i]) \cup {"Cluster"} |->
                           IF c = "Cluster" THEN old[i].Cluster ELSE new[i][c]]
                  ELSE new[i]])

\* lines 143-191: the table is built from customer_data alone, in a new frame
new_rfm_data(data, a) == Frame(add_scores(rfm_metrics(data, a)))

\* calculate_rfm(analysis_date=arg).  With customer_data None the first
\* subscript of it (line 137, or line 140 when the argument is given) raises
\* TypeError.  Otherwise line 137 takes the default from the date column as it
\* is stored; line 140 then converts the column, whatever happens later.  With
\* str dates the default is a str and line 144 raises TypeError (str -
\* Timestamp); on an empty table the first pd.cut raises ValueError.  rfm_data
\* is assigned only at line 191.
calculate_rfm_body(arg) ==
    /\ LET data == customer_data.rows
       IN  /\ call_arg' = arg
           /\ date_dtype' = IF customer_data.is_none THEN date_dtype ELSE "datetime"
           /\ UNCHANGED customer_data
           /\ IF customer_data.is_none
              THEN /\ outcome' = "TypeError"
                   /\ analysis_date' = Omitted
                   /\ UNCHANGED rfm_data
              ELSE IF Len(data) = 0
              THEN /\ outcome' = "ValueError"
                   /\ analysis_date' = Omitted
                   /\ UNCHANGED rfm_data
              ELSE IF arg = Omitted /\ date_dtype = "object"
              THEN /\ outcome' = "TypeError"
                   /\ analysis_date' = Omitted
                   /\ UNCHANGED rfm_data
              ELSE LET a == IF arg = Omitted THEN max_date(data) ELSE arg[1]
                   IN  /\ analysis_date' = Given(a)
                       /\ rfm_data' = new_rfm_data(data, a)
                       /\ outcome' = "returned"

\* calculate_rfm on its own, as SpecRfm runs it
calculate_rfm(arg) ==
    /\ calculate_rfm_body(arg)
    /\ UNCHANGED <<segment_vars, score_vars, cluster_vars>>
    /\ UNCHANGED clean_vars

NextRfm ==
    \/ calculate_rfm(Omitted)
    \/ \E d \in AnalysisDates : calculate_rfm(Given(d))

SpecRfm == InitRfm /\ [][NextRfm]_vars

Returned == outcome = "returned"

\* C6: every row calculate_rfm produces has R_Score, F_Score and M_Score in
\* 1..5 and RFM_Score = (R_Score + F_Score + M_Score) / 3, within [1, 5].
C6_ScoresInRange ==
    Returned =>
        \A k \in DOMAIN rfm_data.rows :
            LET c == rfm_data.rows[k]
            IN  /\ c.R_Score \in 1..5
                /\ c.F_Score \in 1..5
                /\ c.M_Score \in 1..5
                /\ c.RFM_Score.den = 3
                /\ c.RFM_Score.num = c.R_Score + c.F_Score + c.M_Score
                /\ 1 * c.RFM_Score.den <= c.RFM_Score.num
                /\ c.RFM_Score.num <= 5 * c.RFM_Score.den

\* two customers with equal Recency, Frequency and Monetary, both scored
C6_Witness ==
    /\ Returned
    /\ Len(rfm_data.rows) = 2
    /\ rfm_data.rows[1].Recency = rfm_data.rows[2].Recency
    /\ rfm_data.rows[1].Frequency = rfm_data.rows[2].Frequency
    /\ rfm_data.rows[1].Monetary = rfm_data.rows[2].Monetary
    /\ rfm_data.rows[1].R_Score = 3

\* C7 (as claimed): with positive amounts and any analysis_date, every row has
\* Recency >= 0, Frequency >= 1 and Monetary > 0.
C7_MetricsInRange ==
    Returned =>
        \A k \in DOMAIN rfm_data.rows :
            /\ rfm_data.rows[k].Recency >= 0
            /\ rfm_data.rows[k].Frequency >= 1
            /\ rfm_data.rows[k].Monetary > 0

\* the part of C8 the rounding does not touch: rows, Recency, Frequency, default
C8_RowsRecencyFrequency ==
    LET data == customer_data.rows
        rows == rfm_data.rows
        a    == analysis_date[1]
    IN  /\ {rows[k].customer_id : k \in DOMAIN rows}
               = {data[i].customer_id : i \in DOMAIN data}
        /\ \A k, l \in DOMAIN rows : rows[k].customer_id = rows[l].customer_id => k = l
        /\ \A k \in DOMAIN rows :
               LET G == {i \in DOMAIN data : data[i].customer_id = rows[k].customer_id}
               IN  /\ \E i \in G :
                          /\ \A j \in G : data[j].transaction_date <= data[i].transaction_date
                          /\ rows[k].Recency = (a - data[i].transaction_date) \div TicksPerDay
                   /\ rows[k].Frequency = Cardinality(G)
        /\ call_arg = Omitted =>
               /\ \A i \in DOMAIN data : data[i].transaction_date <= a
               /\ \E i \in DOMAIN data : data[i].transaction_date = a
               /\ \E k \in DOMAIN rows :
                      /\ rows[k].Recency = 0
                      /\ \A l \in DOMAIN rows : rows[l].Recency >= 0
        /\ SumOver(DOMAIN rows, [k \in DOMAIN rows |-> rows[k].Frequency]) = Len(data)

\* the exact sum of a customer's amounts
AmountSum(c) ==
    SumOver({i \in DOMAIN customer_data.rows : customer_data.rows[i].customer_id = c},
            [i \in DOMAIN customer_data.rows |-> customer_data.rows[i].transaction_amount])

MaxRaise == 2    \* largest amount added to a value of the column in SpecScore

\* the column x with the value of row i replaced by v
Replaced(x, i, v) == [j \in DOMAIN x |-> IF j = i THEN v ELSE x[j]]

\* the rows of the scored column holding its largest value
LargestRows == {i \in DOMAIN column : column[i] = SeqMax(column)}

\* the row rank(method='first') places last: the last row among LargestRows
TopRanked == SetMax(LargestRows)

\* C11 as stated: the Frequency / Monetary scores depend on the rank order
\* only: whichever row holds the largest value, replacing that value by any
\* larger one changes no customer's score.
C11_LargestRaised ==
    (Scored /\ kind # "Recency") =>
        \A i \in LargestRows : \A e \in 1..MaxRaise :
            FM_Score(Replaced(column, i, SeqMax(column) + e)) = scores

\* C11, amended: replacing the value of the top-ranked customer (the only
\* holder of the largest value, or the last row among its holders) by any
\* larger value changes no customer's score; and for the Monetary values
\* 10, 20, 30, 40, 50, 1000 the outlier 1000 is alone in score 5, whichever
\* row holds it.
C11_TopRankedRaised ==
    /\ (Scored /\ kind # "Recency") =>
           \A e \in 1..MaxRaise :
               FM_Score(Replaced(column, TopRanked, SeqMax(column) + e)) = scores
    /\ (Scored /\ column \in OutlierColumns) =>
           \A i \in DOMAIN column : scores[i] = 5 <=> column[i] = 1000

\* a Monetary column whose largest value is held by one customer only, scored,
\* with customers in other scores than the top one
C11_Witness ==
    /\ Scored
    /\ kind = "Monetary"
    /\ Len(column) >= 5
    /\ Cardinality(LargestRows) = 1
    /\ scores[TopRanked] = 5
    /\ \E i \in DOMAIN column : scores[i] = 1

\* the distinct customer_id values of the loaded transactions
Customers == {customer_data.rows[i].customer_id : i \in DOMAIN customer_data.rows}

\* C12 as stated: a population of 1 to 4 distinct customers is not scored;
\* calculate_rfm, unless it has failed on str dates before, raises
\* InsufficientDataError.
C12_SmallPopulationRejected ==
    (outcome \notin {Unset, "TypeError"} /\ ~customer_data.is_none
        /\ Cardinality(Customers) \in 1..4) =>
        /\ outcome = "InsufficientDataError"
        /\ rfm_data.is_none

\* C13 as stated: calculate_rfm on an empty transaction table, or with no data
\* loaded, raises InvalidInputError and assigns no rfm_data.
C13_EmptyInputRejected ==
    (outcome # Unset /\ (customer_data.is_none \/ Len(customer_data.rows) = 0)) =>
        /\ outcome = "InvalidInputError"
        /\ rfm_data.is_none

(***************************************************************************)
(* _find_optimal_clusters.  KMeans and silhouette_score are library code:  *)
(* of the matrix only its number of rows and of distinct rows are kept,    *)
(* and the score the library computes for the seeded fit of each k is the  *)
(* function silhouette, fixed for a behaviour, drawn from SilhouetteLevels.*)
(***************************************************************************)
MaxRows == 5    \* most rows of the matrix in SpecSelect

MaxClustersDefault == 10

\* silhouette scores lie in [-1, 1]; three of them, in increasing order
SilhouetteLevels == (0 - 1)..1

\* the max_clusters arguments tried in SpecSelect
MaxClustersArgs == {1, 2, 3, MaxClustersDefault}

Min(a, b) == IF a <= b THEN a ELSE b

\* mutant: range(2, min(max_clusters, len(data))), the last candidate lost
k_range_short(n, mc) == [i \in 1..(Min(mc, n) - 2) |-> i + 1]

\* line 246: range(2, min(max_clusters + 1, len(data))), as a sequence
k_range(n, mc) == [i \in 1..(Min(mc + 1, n) - 2) |-> i + 1]

\* the number of distinct labels KMeans(n_clusters=k).fit_predict assigns to a
\* matrix with d distinct rows: equal rows are nearest to the same centre
n_labels(k, d) == Min(k, d)

\* silhouette_score(data, labels) raises ValueError unless
\* 2 <= number of labels <= number of rows - 1
silhouette_defined(n, nl) == 2 <= nl /\ nl <= n - 1

\* mutant: the last of the largest scores
argmax_last(s) ==
    CHOOSE i \in DOMAIN s : /\ \A j \in DOMAIN s : s[j] <= s[i]
                            /\ \A j \in DOMAIN s : j > i => s[j] < s[i]

\* np.argmax: the first index (1-based here) of the largest score
argmax(s) ==
    CHOOSE i \in DOMAIN s : /\ \A j \in DOMAIN s : s[j] <= s[i]
                            /\ \A j \in DOMAIN s : j < i => s[j] < s[i]

\* lines 242-259 on a matrix of shape.len rows, shape.distinct of them
\* distinct: the loop stops at the first k whose silhouette_score raises, and
\* np.argmax raises ValueError on an empty list of scores
find_optimal_clusters(shape, mc) ==
    LET ks   == k_range(shape.len, mc)
        bad  == {i \in DOMAIN ks :
                    ~silhouette_defined(shape.len, n_labels(ks[i], shape.distinct))}
        done == IF bad = {} THEN Len(ks) ELSE SetMin(bad)
        ss   == [i \in 1..(IF bad = {} THEN done ELSE done - 1) |-> silhouette[ks[i]]]
    IN  [evaluated         |-> SubSeq(ks, 1, done),
         silhouette_scores |-> ss,
         outcome           |-> IF bad # {} \/ Len(ks) = 0 THEN "ValueError" ELSE "returned",
         optimal_k         |-> IF bad # {} \/ Len(ks) = 0 THEN Omitted
                               ELSE Given(ks[argmax(ss)])]

Shapes == {[len |-> n, distinct |-> d] : n \in 1..MaxRows, d \in 1..MaxRows}

InitSelect ==
    /\ scaled_features \in {sh \in Shapes : sh.distinct <= sh.len}
    /\ silhouette \in [2..(scaled_features.len - 1) -> SilhouetteLevels]
    /\ max_clusters = Omitted
    /\ search = << >>
    /\ SegmentIdle
    /\ ScoreIdle
    /\ ObjectIdle
    /\ ResultIdle
    /\ CleanIdle

\* self._find_optimal_clusters(data, max_clusters=mc)
FindOptimalClusters(mc) ==
    /\ max_clusters' = Given(mc)
    /\ search' = find_optimal_clusters(scaled_features, mc)
    /\ UNCHANGED <<scaled_features, silhouette>>
    /\ UNCHANGED <<segment_vars, score_vars, object_vars, result_vars>>
    /\ UNCHANGED clean_vars

NextSelect == \E mc \in MaxClustersArgs : FindOptimalClusters(mc)

SpecSelect == InitSelect /\ [][NextSelect]_vars

Searched == search # << >>

\* the candidate counts 2 .. min(max_clusters, n - 1) of the last call, in
\* increasing order
Candidates ==
    [i \in 1..(Min(max_clusters[1], scaled_features.len - 1) - 1) |-> i + 1]

IsPrefix(s, t) == Len(s) <= Len(t) /\ s = SubSeq(t, 1, Len(s))

C16_ArgmaxFirst ==
    (Searched /\ search.outcome = "returned") =>
        LET best == search.optimal_k[1]
        IN  \A i \in DOMAIN search.evaluated :
                LET k == search.evaluated[i]
                IN  /\ search.silhouette_scores[i] = silhouette[k]
                    /\ silhouette[k] <= silhouette[best]
                    /\ silhouette[k] = silhouette[best] => best <= k

\* a call that returned the first of two candidates sharing the largest
\* score, a candidate with a smaller score having been evaluated as well
C16_Witness ==
    /\ Searched
    /\ search.outcome = "returned"
    /\ \E i, j, l \in DOMAIN search.evaluated :
           /\ i < j
           /\ search.optimal_k = Given(search.evaluated[i])
           /\ search.silhouette_scores[j] = search.silhouette_scores[i]
           /\ search.silhouette_scores[l] < search.silhouette_scores[i]

(***************************************************************************)
(* perform_kmeans_clustering and analyze_segments, on an object in the     *)
(* state load_data and calculate_rfm() leave it in.  The customers are     *)
(* repeat buyers (two purchases of 1.50 on day 0) and single buyers (one   *)
(* purchase of 5.00 on day 4); customers with equal metrics differ by the  *)
(* row-order ranks only, so the repeat buyers are given the lower ids.     *)
(***************************************************************************)
MaxCustomers == 3    \* most customers of the population in SpecPipeline

\* the transactions of n customers, the first i of them repeat buyers
PipelineTable(n, i) ==
    [j \in 1..(n + i) |->
        IF j <= 2 * i
        THEN [customer_id |-> (j + 1) \div 2, transaction_date |-> 0,
              transaction_amount |-> 1500]
        ELSE [customer_id |-> j - i, transaction_date |-> 4 * TicksPerDay,
              transaction_amount |-> 5000]]

PipelineTables ==
    {PipelineTable(ni[1], ni[2]) :
        ni \in {x \in (1..MaxCustomers) \X (0..MaxCustomers) : x[2] <= x[1]}}

\* line 205: self.rfm_data[features] of one customer, features being the
\* default ['Recency', 'Frequency', 'Monetary']
features(r) == <<r.Recency, r.Frequency, r.Monetary>>

\* line 208: scaler.fit_transform centres every column, so that a table whose
\* columns are shifted has the same scaled matrix; the scaled matrix is
\* written here with every column less its minimum
fit_transform(rows) ==
    LET low(c) == SetMin({features(rows[j])[c] : j \in DOMAIN rows})
    IN  [i \in DOMAIN rows |-> [c \in 1..3 |-> features(rows[i])[c] - low(c)]]

\* the distinct rows of the scaled feature matrix
Points(rows) == {fit_transform(rows)[i] : i \in DOMAIN rows}

\* the labellings KMeans(n_clusters=k) can give the distinct rows: ids in
\* 0..k-1, equal rows nearest to the same centre, min(k, distinct rows) ids
Labelings(pts, k) ==
    {f \in [pts -> 0..(k - 1)] :
        Cardinality({f[q] : q \in pts}) = n_labels(k, Cardinality(pts))}

RECURSIVE LabelOracles(_, _)
\* the sequences that hold one of those labellings for each k in 1..n
LabelOracles(pts, n) ==
    IF n = 0 THEN {<< >>}
    ELSE {Append(g, f) : g \in LabelOracles(pts, n - 1), f \in Labelings(pts, n)}

\* mutant: KMeans without random_state, a fresh draw at every fit
fit_predict_unseeded(pts, k) == Labelings(pts, k)

\* lines 216-217: KMeans(n_clusters=k, random_state=42, n_init=10)
\* .fit_predict(scaled_features): with the seed fixed, one labelling for each k
fit_predict(pts, k) == {km_labels[k]}

\* mutant: the labelled rows left in reverse order
with_cluster_reversed(rows, f) ==
    [i \in DOMAIN rows |->
        [c \in (DOMAIN rows[Len(rows) + 1 - i]) \cup {"Cluster"} |->
            IF c = "Cluster" THEN f[fit_transform(rows)[Len(rows) + 1 - i]]
            ELSE rows[Len(rows) + 1 - i][c]]]

\* the rows with the Cluster column assigned (line 220)
with_cluster(rows, f) ==
    [i \in DOMAIN rows |->
        [c \in (DOMAIN rows[i]) \cup {"Cluster"} |->
            IF c = "Cluster" THEN f[fit_transform(rows)[i]] ELSE rows[i][c]]]

\* a / b rounded to the nearest integer, a tie to the even one (b > 0)
RoundDiv(a, b) ==
    LET q == a \div b
        r == a % b
    IN  IF 2 * r < b THEN q
        ELSE IF 2 * r > b THEN q + 1
        ELSE IF q % 2 = 0 THEN q ELSE q + 1

\* .agg('mean') followed by .round(2), in hundredths: the mean of the values
\* col[i] / unit over the rows in S
mean2(col, S, unit) == RoundDiv(100 * SumOver(S, col), unit * Cardinality(S))

\* mutant: the percentage rounded to one decimal
percentage_round1(count, n) == 10 * RoundDiv(1000 * count, n)

\* lines 277-279 and 294-296: (count / len(self.rfm_data) * 100).round(2), in
\* hundredths of a percent
percentage(count, n) == RoundDiv(10000 * count, n)

\* groupby('Segment') orders the groups by label
SegmentOrder ==
    <<"About to Sleep", "At Risk", "Cannot Lose Them", "Champions", "Hibernating",
      "Lost", "Loyal Customers", "Need Attention", "New Customers",
      "Potential Loyalists", "Promising">>

\* the members of s that are in keep, in the order of s
RECURSIVE SelectInOrder(_, _)
SelectInOrder(s, keep) ==
    IF s = << >> THEN << >>
    ELSE (IF Head(s) \in keep THEN <<Head(s)>> ELSE << >>) \o SelectInOrder(Tail(s), keep)

\* the aggregate columns both summaries share, for the customers in S; Monetary
\* is held in thousandths in rfm_data and in hundredths here
aggregate(rows, S) ==
    [customer_id |-> Cardinality(S),
     Recency     |-> mean2([i \in DOMAIN rows |-> rows[i].Recency], S, 1),
     Frequency   |-> mean2([i \in DOMAIN rows |-> rows[i].Frequency], S, 1),
     Monetary    |-> mean2([i \in DOMAIN rows |-> rows[i].Monetary], S, 1000),
     Percentage  |-> percentage(Cardinality(S), Len(rows))]

\* mutant: sort_values('Monetary') with the default ascending=True
sort_values_ascending(t) ==
    LET pos(i) == 1 + Cardinality({j \in DOMAIN t :
                        t[j].Monetary < t[i].Monetary
                        \/ (t[j].Monetary = t[i].Monetary /\ j < i)})
    IN  [q \in DOMAIN t |-> t[CHOOSE i \in DOMAIN t : pos(i) = q]]

\* line 282: sort_values('Monetary', ascending=False); equal values keep their
\* order
sort_values(t) ==
    LET pos(i) == 1 + Cardinality({j \in DOMAIN t :
                        t[j].Monetary > t[i].Monetary
                        \/ (t[j].Monetary = t[i].Monetary /\ j < i)})
    IN  [q \in DOMAIN t |-> t[CHOOSE i \in DOMAIN t : pos(i) = q]]

\* lines 268-282: one row for each Segment label present
rfm_segment_summary(rows) ==
    LET present == SelectInOrder(SegmentOrder, {rows[i].Segment : i \in DOMAIN rows})
        members(l) == {i \in DOMAIN rows : rows[i].Segment = l}
        num == [i \in DOMAIN rows |-> rows[i].RFM_Score.num]
    IN  sort_values(
            [g \in DOMAIN present |->
                LET a == aggregate(rows, members(present[g]))
                IN  [Segment     |-> present[g],
                     customer_id |-> a.customer_id,
                     Recency     |-> a.Recency,
                     Frequency   |-> a.Frequency,
                     Monetary    |-> a.Monetary,
                     RFM_Score   |-> mean2(num, members(present[g]), 3),
                     Percentage  |-> a.Percentage]])

\* mutant: an empty summary, not None, for a table without Cluster column
cluster_summary_empty(rows) ==
    IF \A i \in DOMAIN rows : "Cluster" \notin DOMAIN rows[i] THEN Given(<< >>)
    ELSE LET present == SortedSeq({rows[i].Cluster : i \in DOMAIN rows})
             members(c) == {i \in DOMAIN rows : rows[i].Cluster = c}
         IN  Given([g \in DOMAIN present |->
                       LET a == aggregate(rows, members(present[g]))
                       IN  [Cluster     |-> present[g],
                            customer_id |-> a.customer_id,
                            Recency     |-> a.Recency,
                            Frequency   |-> a.Frequency,
                            Monetary    |-> a.Monetary,
                            Percentage  |-> a.Percentage]])

\* lines 285-296: None without a Cluster column, else one row for each cluster
\* id present, in ascending order of the id
cluster_summary(rows) ==
    IF \A i \in DOMAIN rows : "Cluster" \notin DOMAIN rows[i] THEN Omitted
    ELSE LET present == SortedSeq({rows[i].Cluster : i \in DOMAIN rows})
             members(c) == {i \in DOMAIN rows : rows[i].Cluster = c}
         IN  Given([g \in DOMAIN present |->
                       LET a == aggregate(rows, members(present[g]))
                       IN  [Cluster     |-> present[g],
                            customer_id |-> a.customer_id,
                            Recency     |-> a.Recency,
                            Frequency   |-> a.Frequency,
                            Monetary    |-> a.Monetary,
                            Percentage  |-> a.Percentage]])

\* the n_clusters arguments tried in SpecPipeline, besides None
NClustersArgs == {1, 2, 3}

\* the number of rows and of distinct rows of the scaled feature matrix
shape(rows) == [len |-> Len(rows), distinct |-> Cardinality(Points(rows))]

\* the cluster counts whose seeded fit silhouette_score accepts
Scorable(rows) ==
    {k \in 2..Len(rows) :
        silhouette_defined(Len(rows), n_labels(k, Cardinality(Points(rows))))}

\* lines 47-53: the object as __init__ leaves it.  km_labels and
\* silhouette are drawn when calculate_rfm builds a table.  With two distinct
\* rows at most, every fit that silhouette_score accepts splits the customers
\* in the same two groups, so the score is the same for every k, and the
\* automatic choice, when there is one, is 2; km_labels covers the counts
\* that are fitted.
InitPipeline ==
    /\ customer_data = NoneFrame
    /\ date_dtype = Unset
    /\ rfm_data = NoneFrame
    /\ analysis_date = Omitted
    /\ outcome = Unset
    /\ last_call = Unset
    /\ km_labels = << >>
    /\ silhouette = << >>
    /\ files = {}
    /\ call_arg = Omitted
    /\ search = << >>
    /\ n_clusters = Omitted
    /\ silhouette_avg = Omitted
    /\ segmented_data = Omitted
    /\ repeated = FALSE
    /\ SelectIdle
    /\ SegmentIdle
    /\ ScoreIdle
    /\ CleanIdle

\* whether the call of method name with argument arg repeats the last call
Repeats(name, arg) == last_call = name /\ call_arg = arg

\* lines 196-240.  arg is the n_clusters argument.  The Cluster column is
\* assigned (line 220) before silhouette_score (line 235) can raise; KMeans
\* raises ValueError when asked for more clusters than there are rows.
\* self.scaler is refitted by fit_transform (line 208) at every call and
\* carries nothing from one call to the next.
perform_kmeans_clustering(arg) ==
    /\ last_call' = "perform_kmeans_clustering"
    /\ call_arg' = arg
    /\ repeated' = Repeats("perform_kmeans_clustering", arg)
    /\ IF rfm_data.is_none
       THEN /\ outcome' = "returned None"
            /\ UNCHANGED <<rfm_data, search, n_clusters, silhouette_avg>>
       ELSE LET rows  == rfm_data.rows
                found == find_optimal_clusters(shape(rows), MaxClustersDefault)
            IN  /\ search' = IF arg = Omitted THEN found ELSE search
                /\ IF arg = Omitted /\ found.outcome # "returned"
                   THEN /\ outcome' = found.outcome
                        /\ UNCHANGED <<rfm_data, n_clusters, silhouette_avg>>
                   ELSE LET k == IF arg = Omitted THEN found.optimal_k[1] ELSE arg[1]
                        IN  IF k > Len(rows)
                            THEN /\ outcome' = "ValueError"
                                 /\ UNCHANGED <<rfm_data, n_clusters, silhouette_avg>>
                            ELSE \E f \in fit_predict(Points(rows), k) :
                                   /\ n_clusters' = Given(k)
                                   /\ rfm_data' = Frame(with_cluster(rows, f))
                                   /\ IF k \in Scorable(rows)
                                      THEN /\ outcome' = "returned"
                                           /\ silhouette_avg' = Given(silhouette[k])
                                      ELSE /\ outcome' = "ValueError"
                                           /\ UNCHANGED silhouette_avg
    /\ files' = {}
    /\ UNCHANGED <<customer_data, date_dtype, analysis_date, segmented_data>>
    /\ UNCHANGED <<km_labels, silhouette, select_vars, segment_vars, score_vars>>
    /\ UNCHANGED clean_vars

\* mutant: the rows of rfm_data left sorted by Monetary, as sort_values(...,
\* inplace=True) on self.rfm_data would
analyze_segments_in_place ==
    /\ last_call' = "analyze_segments"
    /\ call_arg' = Omitted
    /\ repeated' = Repeats("analyze_segments", Omitted)
    /\ IF rfm_data.is_none
       THEN /\ outcome' = "returned None"
            /\ UNCHANGED <<segmented_data, rfm_data>>
       ELSE /\ outcome' = "returned"
            /\ segmented_data' = Given([rfm_segments     |-> rfm_segment_summary(rfm_data.rows),
                                        cluster_segments |-> cluster_summary(rfm_data.rows)])
            /\ rfm_data' = Frame(sort_values(rfm_data.rows))
    /\ UNCHANGED <<customer_data, date_dtype, analysis_date>>
    /\ files' = {}
    /\ search' = << >> /\ n_clusters' = Omitted /\ silhouette_avg' = Omitted
    /\ UNCHANGED <<km_labels, silhouette, select_vars, segment_vars, score_vars>>
    /\ UNCHANGED clean_vars

\* lines 261-303
analyze_segments ==
    /\ last_call' = "analyze_segments"
    /\ call_arg' = Omitted
    /\ repeated' = Repeats("analyze_segments", Omitted)
    /\ IF rfm_data.is_none
       THEN /\ outcome' = "returned None"
            /\ UNCHANGED segmented_data
       ELSE /\ outcome' = "returned"
            /\ segmented_data' = Given([rfm_segments     |-> rfm_segment_summary(rfm_data.rows),
                                        cluster_segments |-> cluster_summary(rfm_data.rows)])
    /\ UNCHANGED <<customer_data, date_dtype, analysis_date, rfm_data>>
    /\ files' = {}
    /\ search' = << >> /\ n_clusters' = Omitted /\ silhouette_avg' = Omitted
    /\ UNCHANGED <<km_labels, silhouette, select_vars, segment_vars, score_vars>>
    /\ UNCHANGED clean_vars

\* the sources load_data can read: a CSV file, whose dates arrive as strings
\* (read_csv, line 79), or a query or the generated sample, whose dates are
\* timestamps (lines 75, 82)
Sources == {[table |-> t, dtype |-> d] : t \in PipelineTables, d \in {"object", "datetime"}}

\* lines 69-91: load_data reading the source src; it assigns customer_data
\* and nothing else.  The data are loaded before the analysis starts, as
\* main (lines 452-519) does.
load_data(src) ==
    /\ rfm_data.is_none
    /\ last_call' = "load_data"
    /\ call_arg' = Omitted
    /\ repeated' = FALSE
    /\ customer_data' = Frame(src.table)
    /\ date_dtype' = src.dtype
    /\ outcome' = "returned"
    /\ files' = {}
    /\ UNCHANGED <<rfm_data, analysis_date, segmented_data>>
    /\ search' = << >> /\ n_clusters' = Omitted /\ silhouette_avg' = Omitted
    /\ UNCHANGED <<km_labels, silhouette, select_vars, segment_vars, score_vars>>
    /\ UNCHANGED clean_vars

\* lines 87-91: a source that cannot be read; the exception is caught and
\* None returned
load_data_failed ==
    /\ last_call' = "load_data"
    /\ call_arg' = Omitted
    /\ repeated' = FALSE
    /\ outcome' = "returned None"
    /\ files' = {}
    /\ UNCHANGED <<customer_data, date_dtype, rfm_data, analysis_date, segmented_data>>
    /\ search' = << >> /\ n_clusters' = Omitted /\ silhouette_avg' = Omitted
    /\ UNCHANGED <<km_labels, silhouette, select_vars, segment_vars, score_vars>>
    /\ UNCHANGED clean_vars

\* calculate_rfm called on the object.  KMeans and silhouette_score are
\* functions of the scaled feature matrix: a table with another scaled
\* matrix gets its own labellings and scores.
calculate_rfm_call(arg) ==
    /\ calculate_rfm_body(arg)
    /\ last_call' = "calculate_rfm"
    /\ repeated' = Repeats("calculate_rfm", arg)
    /\ IF outcome' = "returned"
          /\ (rfm_data.is_none \/ fit_transform(rfm_data'.rows) # fit_transform(rfm_data.rows))
       THEN LET rows == rfm_data'.rows
            IN  /\ km_labels' \in LabelOracles(Points(rows),
                                                Min(Len(rows), SetMax(NClustersArgs)))
                /\ silhouette' \in {[k \in Scorable(rows) |-> v] : v \in SilhouetteLevels}
       ELSE UNCHANGED <<km_labels, silhouette>>
    /\ files' = {}
    /\ UNCHANGED segmented_data
    /\ search' = << >> /\ n_clusters' = Omitted /\ silhouette_avg' = Omitted
    /\ UNCHANGED <<select_vars, segment_vars, score_vars>>
    /\ UNCHANGED clean_vars

\* lines 305-361: the dictionary returned has these keys
RecommendationKeys ==
    {"Champions", "Loyal Customers", "Potential Loyalists", "New Customers",
     "At Risk", "Cannot Lose Them", "Hibernating", "Lost"}

\* mutant: the dictionary returned without the check of rfm_data
generate_marketing_recommendations_unguarded ==
    /\ last_call' = "generate_marketing_recommendations"
    /\ call_arg' = Omitted
    /\ repeated' = Repeats("generate_marketing_recommendations", Omitted)
    /\ outcome' = "returned"
    /\ files' = {}
    /\ UNCHANGED <<customer_data, date_dtype, rfm_data, analysis_date, segmented_data>>
    /\ search' = << >> /\ n_clusters' = Omitted /\ silhouette_avg' = Omitted
    /\ UNCHANGED <<km_labels, silhouette, select_vars, segment_vars, score_vars>>
    /\ UNCHANGED clean_vars

\* lines 305-361
generate_marketing_recommendations ==
    /\ last_call' = "generate_marketing_recommendations"
    /\ call_arg' = Omitted
    /\ repeated' = Repeats("generate_marketing_recommendations", Omitted)
    /\ outcome' = IF rfm_data.is_none THEN "returned None" ELSE "returned"
    /\ files' = {}
    /\ UNCHANGED <<customer_data, date_dtype, rfm_data, analysis_date, segmented_data>>
    /\ search' = << >> /\ n_clusters' = Omitted /\ silhouette_avg' = Omitted
    /\ UNCHANGED <<km_labels, silhouette, select_vars, segment_vars, score_vars>>
    /\ UNCHANGED clean_vars

\* lines 363-386: the table is written from rfm_data, the summaries from
\* segmented_data as analyze_segments left it
save_results ==
    /\ last_call' = "save_results"
    /\ call_arg' = Omitted
    /\ repeated' = Repeats("save_results", Omitted)
    /\ IF rfm_data.is_none
       THEN /\ outcome' = "returned False"
            /\ files' = {}
       ELSE /\ outcome' = "returned True"
            /\ files' = {"customer_rfm_analysis.csv"}
                         \cup (IF segmented_data # Omitted
                               THEN {"rfm_segment_summary.csv"} ELSE {})
                         \cup (IF segmented_data # Omitted
                                  /\ segmented_data[1].cluster_segments # Omitted
                               THEN {"cluster_segment_summary.csv"} ELSE {})
    /\ UNCHANGED <<customer_data, date_dtype, rfm_data, analysis_date, segmented_data>>
    /\ search' = << >> /\ n_clusters' = Omitted /\ silhouette_avg' = Omitted
    /\ UNCHANGED <<km_labels, silhouette, select_vars, segment_vars, score_vars>>
    /\ UNCHANGED clean_vars

NextPipeline ==
    \/ \E src \in Sources : load_data(src)
    \/ load_data_failed
    \/ calculate_rfm_call(Omitted)
    \/ perform_kmeans_clustering(Omitted)
    \/ \E k \in NClustersArgs : perform_kmeans_clustering(Given(k))
    \/ analyze_segments
    \/ generate_marketing_recommendations
    \/ save_results

SpecPipeline == InitPipeline /\ [][NextPipeline]_vars

Clustered == last_call = "perform_kmeans_clustering"
Analyzed  == last_call = "analyze_segments" /\ outcome = "returned"

\* C14 as stated: perform_kmeans_clustering(n_clusters=None) on a population
\* of fewer than 3 customers raises InsufficientDataError.
C14_SmallPopulationRejected ==
    (Clustered /\ call_arg = Omitted /\ ~rfm_data.is_none /\ Len(rfm_data.rows) < 3) =>
        outcome = "InsufficientDataError"

ColumnSum(t, c) == SumOver(DOMAIN t, [g \in DOMAIN t |-> t[g][c]])

\* C18: in the segment summary the customer counts sum to the population size
\* and the Percentage column sums to 100 within 0.005 for each row (in
\* hundredths of a percent: to 10000 within half a unit for each row).
C18_PercentagesSum ==
    segmented_data # Omitted =>
        LET t == segmented_data[1].rfm_segments
        IN  /\ ColumnSum(t, "customer_id") = Len(rfm_data.rows)
            /\ 2 * Abs(ColumnSum(t, "Percentage") - 10000) <= Len(t)

\* three segments of one customer each: 33.33 percent each, 99.99 in all
C18_Witness ==
    /\ Analyzed
    /\ Len(segmented_data[1].rfm_segments) = 3
    /\ ColumnSum(segmented_data[1].rfm_segments, "Percentage") = 9999

\* the sum of Monetary (in thousandths) over the customers whose column c
\* holds v
TotalMonetary(c, v) ==
    SumOver({i \in DOMAIN rfm_data.rows : rfm_data.rows[i][c] = v},
            [i \in DOMAIN rfm_data.rows |-> rfm_data.rows[i].Monetary])

MeanMonetary(c, v) ==
    mean2([i \in DOMAIN rfm_data.rows |-> rfm_data.rows[i].Monetary],
          {i \in DOMAIN rfm_data.rows : rfm_data.rows[i][c] = v}, 1000)

C20_AnalysisReadOnly ==
    [][last_call' = "analyze_segments" =>
          /\ customer_data' = customer_data
          /\ rfm_data' = rfm_data
          /\ Analyzed => segmented_data' = segmented_data]_vars

\* analyze_segments called twice in a row on clustered customers, in an order
\* other than that of their Monetary values
C20_Witness ==
    /\ Analyzed
    /\ repeated
    /\ segmented_data[1].cluster_segments # Omitted
    /\ \E i, j \in DOMAIN rfm_data.rows :
           i < j /\ rfm_data.rows[i].Monetary < rfm_data.rows[j].Monetary

\* C21: a perform_kmeans_clustering call that returns leaves the customer rows
\* of rfm_data as they were, in number, order and every column but Cluster
\* (customer_id, Recency, Frequency, Monetary, the three scores, RFM_Score
\* and Segment), and each row then has a Cluster column.
C21_OnlyClusterChanges ==
    [][(last_call' = "perform_kmeans_clustering" /\ outcome' = "returned") =>
          /\ Len(rfm_data'.rows) = Len(rfm_data.rows)
          /\ \A i \in DOMAIN rfm_data.rows :
                 /\ DOMAIN rfm_data'.rows[i] = (DOMAIN rfm_data.rows[i]) \cup {"Cluster"}
                 /\ \A c \in (DOMAIN rfm_data.rows[i]) \ {"Cluster"} :
                        rfm_data'.rows[i][c] = rfm_data.rows[i][c]]_vars

\* a clustering that returned, on customers of different segments put in
\* different clusters
C21_Witness ==
    /\ Clustered
    /\ outcome = "returned"
    /\ \E i, j \in DOMAIN rfm_data.rows :
           /\ rfm_data.rows[i].Segment # rfm_data.rows[j].Segment
           /\ rfm_data.rows[i].Cluster # rfm_data.rows[j].Cluster

\* whether the table has a Cluster column
HasCluster(frame) ==
    /\ ~frame.is_none
    /\ \E i \in DOMAIN frame.rows : "Cluster" \in DOMAIN frame.rows[i]

\* C22: a Cluster column appears in rfm_data only by a
\* perform_kmeans_clustering call, and stays only while rfm_data is the table
\* that call labelled; the table a calculate_rfm call that returned leaves has
\* no Cluster column; and analyze_segments on a table without Cluster column
\* reports cluster_segments = None.
C22_ClusterOnlyAfterPerform ==
    [][/\ (HasCluster(rfm_data') /\ ~HasCluster(rfm_data)) =>
              last_call' = "perform_kmeans_clustering"
       /\ (HasCluster(rfm_data') /\ HasCluster(rfm_data)
              /\ last_call' # "perform_kmeans_clustering") => rfm_data' = rfm_data
       /\ (last_call' = "calculate_rfm" /\ outcome' = "returned") =>
              ~HasCluster(rfm_data')
       /\ (last_call' = "analyze_segments" /\ outcome' = "returned"
              /\ ~HasCluster(rfm_data)) =>
              segmented_data'[1].cluster_segments = Omitted]_vars

\* customers clustered and analyzed (the summary stored has clusters), and
\* calculate_rfm then called again: the table it leaves has no Cluster column
C22_Witness ==
    /\ last_call = "calculate_rfm"
    /\ outcome = "returned"
    /\ ~HasCluster(rfm_data)
    /\ segmented_data # Omitted
    /\ segmented_data[1].cluster_segments # Omitted
    /\ Len(rfm_data.rows) > 1

\* the outcomes that are exceptions raised to the caller
Raises == {"ValueError", "TypeError"}

\* C23 as stated: a calculate_rfm or perform_kmeans_clustering call that
\* raises leaves rfm_data exactly as it was before the call.
C23_FailedStageLeavesNoOutput ==
    [][(last_call' \in {"calculate_rfm", "perform_kmeans_clustering"}
           /\ outcome' \in Raises) => rfm_data' = rfm_data]_vars

C25_SummariesCurrent ==
    (segmented_data # Omitted /\ ~rfm_data.is_none /\ outcome \notin Raises) =>
        LET rows    == rfm_data.rows
            summary == segmented_data[1]
        IN  /\ {summary.rfm_segments[g].Segment : g \in DOMAIN summary.rfm_segments}
                   = {rows[i].Segment : i \in DOMAIN rows}
            /\ \A g \in DOMAIN summary.rfm_segments :
                   summary.rfm_segments[g].customer_id =
                       Cardinality({i \in DOMAIN rows :
                                       rows[i].Segment = summary.rfm_segments[g].Segment})
            /\ summary.cluster_segments # Omitted <=> HasCluster(rfm_data)
            /\ (last_call = "save_results" /\ outcome = "returned True") =>
                   ("cluster_segment_summary.csv" \in files <=> HasCluster(rfm_data))

\* the methods that check rfm_data first and return at once when it is None
Guarded == {"perform_kmeans_clustering", "analyze_segments",
            "generate_marketing_recommendations", "save_results"}

\* C30: while rfm_data is None, perform_kmeans_clustering, analyze_segments
\* and generate_marketing_recommendations return None and save_results
\* returns False, and the call leaves customer_data, rfm_data and
\* segmented_data as they were; once rfm_data is a table it stays one, and
\* none of the four returns that way again.
C30_EarlyExit ==
    [][/\ (rfm_data.is_none /\ last_call' \in Guarded) =>
              /\ outcome' = IF last_call' = "save_results"
                            THEN "returned False" ELSE "returned None"
              /\ customer_data' = customer_data
              /\ date_dtype' = date_dtype
              /\ rfm_data' = rfm_data
              /\ segmented_data' = segmented_data
       /\ ~rfm_data.is_none =>
              /\ ~rfm_data'.is_none
              /\ last_call' \in Guarded =>
                     outcome' \notin {"returned None", "returned False"}]_vars

\* save_results called with the data loaded and no table computed yet
C30_Witness ==
    /\ last_call = "save_results"
    /\ outcome = "returned False"
    /\ ~customer_data.is_none
    /\ rfm_data.is_none
    /\ files = {}

\* C29 as stated: every label segment_customers assigns is a key of the
\* dictionary generate_marketing_recommendations returns.
C29_EverySegmentHasRecommendation ==
    segment # Unset => segment \in RecommendationKeys

(***************************************************************************)
(* DataPreprocessor.clean_customer_data (data_preprocessing.py).           *)
(*                                                                         *)
(* A raw value is written as its Python literal: "1" is the int 1, "'1'"   *)
(* the str '1', "None" a missing value.  A cleaned date is NaT or          *)
(* Given(day), a cleaned amount NaN or Given(quarters of a unit), the      *)
(* resolution quantile(0.25) and quantile(0.75) need.                      *)
(***************************************************************************)
MaxRecords == 3    \* most records of a raw table drawn field by field

NaN == << >>
NaT == << >>

\* the day datetime.now() falls on (lines 247, 250)
now == 2

\* Series.astype(str) (line 222)
astype_str(v) ==
    CASE v = "1"   -> "1"
      [] v = "'1'" -> "1"
      [] v = "2"   -> "2"
      [] v = "3"   -> "3"

\* pd.to_numeric(errors='coerce') (line 232): a number, a string that reads
\* as one, or NaN
to_numeric(v) ==
    CASE v = "1"      -> Given(4 * 1)
      [] v = "10"     -> Given(4 * 10)
      [] v = "'10.0'" -> Given(4 * 10)
      [] v = "100"    -> Given(4 * 100)
      [] v = "0"      -> Given(0)
      [] v = "-5"     -> Given(4 * (0 - 5))
      [] v = "'abc'"  -> NaN

\* pd.to_datetime(errors='coerce') (line 243)
to_datetime(v) ==
    CASE v = "'2024-01-05'" -> Given(now - 1)
      [] v = "'2999-01-01'" -> Given(now + 1)
      [] v = "'not a date'" -> NaT

RawIds     == {"1", "'1'", PyNone}
RawDates   == {"'2024-01-05'", "'2999-01-01'", "'not a date'", PyNone}
RawAmounts == {"10", "'10.0'", "0", "-5", "'abc'", PyNone}

\* raw records: the record (1, '2024-01-05', 10) and those that differ from it
\* in one field
RawRecords ==
    {[customer_id |-> c, transaction_date |-> "'2024-01-05'", transaction_amount |-> "10"]
        : c \in RawIds}
    \cup {[customer_id |-> "1", transaction_date |-> d, transaction_amount |-> "10"]
        : d \in RawDates}
    \cup {[customer_id |-> "1", transaction_date |-> "'2024-01-05'", transaction_amount |-> a]
        : a \in RawAmounts}

\* five records of one day: customer 1 with a low, a usual and a high amount,
\* customers 2 and 3 with the usual one
OutlierTables ==
    {<<[customer_id |-> "1", transaction_date |-> "'2024-01-05'", transaction_amount |-> lo],
       [customer_id |-> "1", transaction_date |-> "'2024-01-05'", transaction_amount |-> "10"],
       [customer_id |-> "2", transaction_date |-> "'2024-01-05'", transaction_amount |-> "10"],
       [customer_id |-> "3", transaction_date |-> "'2024-01-05'", transaction_amount |-> "10"],
       [customer_id |-> "1", transaction_date |-> "'2024-01-05'", transaction_amount |-> hi]>>
        : lo \in {"1", "10"}, hi \in {"10", "100"}}

\* the rows at the positions in keep, in their order
at(rows, keep) ==
    LET idx == SortedSeq(keep) IN [g \in DOMAIN idx |-> rows[idx[g]]]

\* lines 159-194: dropna on each of the three critical fields
handle_missing_values(rows) ==
    at(rows, {i \in DOMAIN rows :
                 /\ rows[i].customer_id # PyNone
                 /\ rows[i].transaction_date # PyNone
                 /\ rows[i].transaction_amount # PyNone})

\* lines 196-214: drop_duplicates(keep='first') on the values as they are at
\* that point
remove_duplicates(rows) ==
    at(rows, {i \in DOMAIN rows : \A j \in 1..(i - 1) : rows[j] # rows[i]})

\* lines 216-232
standardize_data_types(rows) ==
    [i \in DOMAIN rows |->
        [customer_id        |-> astype_str(rows[i].customer_id),
         transaction_date   |-> rows[i].transaction_date,
         transaction_amount |-> to_numeric(rows[i].transaction_amount)]]

\* lines 234-256: the rows are filtered only when some date is in the future;
\* the comparison is False for NaT
clean_date_columns(rows) ==
    LET parsed == [i \in DOMAIN rows |->
                      [customer_id        |-> rows[i].customer_id,
                       transaction_date   |-> to_datetime(rows[i].transaction_date),
                       transaction_amount |-> rows[i].transaction_amount]]
        future == {i \in DOMAIN parsed : /\ parsed[i].transaction_date # NaT
                                         /\ parsed[i].transaction_date[1] > now}
    IN  IF future # {}
        THEN at(parsed, {i \in DOMAIN parsed : /\ parsed[i].transaction_date # NaT
                                               /\ parsed[i].transaction_date[1] <= now})
        ELSE parsed

\* lines 258-277: each filter is applied only when a value it is to remove
\* is there; the comparisons are False for NaN
clean_monetary_values(rows) ==
    LET amount(r)   == r.transaction_amount
        negative    == {i \in DOMAIN rows : amount(rows[i]) # NaN /\ amount(rows[i])[1] < 0}
        nonnegative == IF negative # {}
                       THEN at(rows, {i \in DOMAIN rows :
                                         amount(rows[i]) # NaN /\ amount(rows[i])[1] >= 0})
                       ELSE rows
        zero        == {i \in DOMAIN nonnegative : amount(nonnegative[i]) = Given(0)}
    IN  IF zero # {}
        THEN at(nonnegative, {i \in DOMAIN nonnegative :
                                 /\ amount(nonnegative[i]) # NaN
                                 /\ amount(nonnegative[i])[1] > 0})
        ELSE nonnegative

\* Series.quantile(q / 4) of the amounts that are numbers, linear
\* interpolation between the order statistics; NaN when there is none
quantile(rows, q) ==
    LET valid  == {i \in DOMAIN rows : rows[i].transaction_amount # NaN}
        x(i)   == rows[i].transaction_amount[1]
        n      == Cardinality(valid)
        kth(k) == CHOOSE v \in {x(i) : i \in valid} :
                      /\ Cardinality({i \in valid : x(i) < v}) < k
                      /\ k <= Cardinality({i \in valid : x(i) <= v})
        lo     == (q * (n - 1)) \div 4 + 1
        r      == (q * (n - 1)) % 4
    IN  IF n = 0 THEN NaN
        ELSE IF r = 0 THEN Given(kth(lo))
        ELSE Given(kth(lo) + (r * (kth(lo + 1) - kth(lo))) \div 4)

\* lines 306-340: the amounts beyond Q1 - 3 IQR and Q3 + 3 IQR are set to
\* the bound; no row is dropped and NaN stays
handle_outliers(rows) ==
    LET Q1 == quantile(rows, 1)
        Q3 == quantile(rows, 3)
    IN  IF Q1 = NaN THEN rows
        ELSE LET IQR         == Q3[1] - Q1[1]
                 lower_bound == Q1[1] - 3 * IQR
                 upper_bound == Q3[1] + 3 * IQR
                 capped(a)   == IF a = NaN THEN NaN
                                ELSE IF a[1] > upper_bound THEN Given(upper_bound)
                                ELSE IF a[1] < lower_bound THEN Given(lower_bound)
                                ELSE a
             IN  [i \in DOMAIN rows |->
                    [customer_id        |-> rows[i].customer_id,
                     transaction_date   |-> rows[i].transaction_date,
                     transaction_amount |-> capped(rows[i].transaction_amount)]]

\* lines 121-157: the steps in the order of the code.  _standardize_text_fields
\* (279-304) and _create_derived_features (342-376) change and add other
\* columns and drop no row.
cleaned(rows) ==
    handle_outliers(
      clean_monetary_values(
        clean_date_columns(
          standardize_data_types(
            remove_duplicates(
              handle_missing_values(rows))))))

\* lines 36-56: a new DataPreprocessor with nothing loaded, or with the table
\* load_raw_data read
InitClean ==
    /\ \/ raw_data = NoneFrame
       \/ \E t \in SeqsUpTo(RawRecords, MaxRecords) \cup OutlierTables : raw_data = Frame(t)
    /\ processed_data = NoneFrame
    /\ SegmentIdle
    /\ ScoreIdle
    /\ ObjectIdle
    /\ ClusterIdle

\* lines 121-157
clean_customer_data ==
    /\ processed_data' = IF raw_data.is_none THEN processed_data
                         ELSE Frame(cleaned(raw_data.rows))
    /\ UNCHANGED raw_data
    /\ UNCHANGED <<segment_vars, score_vars, object_vars, cluster_vars>>

NextClean == clean_customer_data

SpecClean == InitClean /\ [][NextClean]_vars

\* the three fields that identify a transaction
key(r) == <<r.customer_id, r.transaction_date, r.transaction_amount>>

\* C26 as stated: after clean_customer_data no two records of processed_data
\* have the same customer_id, transaction_date and transaction_amount.
C26_NoDuplicates ==
    ~processed_data.is_none =>
        \A i, j \in DOMAIN processed_data.rows :
            i # j => key(processed_data.rows[i]) # key(processed_data.rows[j])

\* C27 as stated: after clean_customer_data every record of processed_data has
\* a customer_id, a transaction_date that was parsed and is not in the future,
\* and a transaction_amount that is a number.
C27_RequiredFieldsValid ==
    ~processed_data.is_none =>
        \A i \in DOMAIN processed_data.rows :
            LET r == processed_data.rows[i]
            IN  /\ r.customer_id # PyNone
                /\ r.transaction_date # NaT
                /\ r.transaction_date[1] <= now
                /\ r.transaction_amount # NaN

\* C28 as stated: after clean_customer_data every record of processed_data has
\* a transaction_amount above 0.
C28_AmountsPositive ==
    ~processed_data.is_none =>
        \A i \in DOMAIN processed_data.rows :
            /\ processed_data.rows[i].transaction_amount # NaN
            /\ processed_data.rows[i].transaction_amount[1] > 0

====
